---------------------------- MODULE Spec2Model ----------------------------
(***************************************************************************)
(* Model of the n8n node "Fixed-Width File" (FixedWidthFile.node.ts) and   *)
(* of its helper getFields (GenericFunctions).                             *)
(*                                                                         *)
(* The node's execute() is modelled as a state machine (one action per     *)
(* branch of the fromFile loop body and of the toFile block).  The codec   *)
(* functions parse and stringify are imported by the node from the package *)
(* @evologi/fixed-width; their code is not part of the node's sources, so  *)
(* Parse and Stringify below follow sections 4.2 and 4.3 of the            *)
(* specification.  Everything else follows the TypeScript sources.         *)
(*                                                                         *)
(* Text is a sequence of one-character strings, a buffer is a sequence of  *)
(* byte values.  A JavaScript value is a record tagged by t: "str",        *)
(* "num", "nan", "bool" or "undef".                                        *)
(***************************************************************************)
EXTENDS Integers, Sequences, FiniteSets, TLC

VARIABLES
    params,     \* what the host hands to execute(): operation, options, ...
    pc,         \* position of the running execute()/function under study
    items,      \* the local variable `items` of execute()
    itemIndex,  \* the loop variable of the fromFile loop (0-based)
    reads,      \* item indices whose binary buffer was fetched, in order
    thrown,     \* the error execute() rejected with, or NoError
    input,      \* argument of the pure function under study
    result      \* its result / the value execute() returned

vars == <<params, pc, items, itemIndex, reads, thrown, input, result>>

---------------------------------------------------------------------------
(* Bounds of the model. *)

MaxText == 3
MaxFields == 2

---------------------------------------------------------------------------
(* Generic helpers on sequences. *)

TextsUpTo(S, n) == UNION {[1..k -> S] : k \in 0..n}

RECURSIVE Repeat(_, _)
Repeat(c, n) == IF n <= 0 THEN <<>> ELSE <<c>> \o Repeat(c, n - 1)

RECURSIVE Sum(_)
Sum(ns) == IF ns = <<>> THEN 0 ELSE Head(ns) + Sum(Tail(ns))

RECURSIVE SumWidths(_)
SumWidths(fs) == IF fs = <<>> THEN 0 ELSE Head(fs).width + SumWidths(Tail(fs))

\* n copies of the pad string c (one character, or empty: then nothing).
PadRun(c, n) == IF c = "" THEN <<>> ELSE Repeat(c, n)

RECURSIVE Flatten(_)
Flatten(ss) == IF ss = <<>> THEN <<>> ELSE Head(ss) \o Flatten(Tail(ss))

---------------------------------------------------------------------------
(* Option objects: a record that holds a key only when the option is set. *)

Has(o, k) == k \in DOMAIN o
Opt(o, k, default) == IF k \in DOMAIN o THEN o[k] ELSE default

\* The object spread { ...a, ...b }: b's keys win.
Merge(a, b) ==
    [k \in DOMAIN a \cup DOMAIN b |-> IF k \in DOMAIN b THEN b[k] ELSE a[k]]

EmptyObject == [k \in {} |-> 0]

---------------------------------------------------------------------------
(* JavaScript values. *)

Undefined == [t |-> "undef"]
NaN == [t |-> "nan"]
Str(s) == [t |-> "str", s |-> s]
Bool(b) == [t |-> "bool", b |-> b]

\* A finite decimal number (-1)^neg * mant / 10^scale, kept in lowest terms
\* so that equal numbers are equal records; neg with mant = 0 is JavaScript's -0.
RECURSIVE Num(_, _, _)
Num(neg, mant, scale) ==
    IF scale > 0 /\ mant % 10 = 0
    THEN Num(neg, mant \div 10, scale - 1)
    ELSE [t |-> "num", neg |-> neg, mant |-> mant, scale |-> scale]

Digits == {"0", "1", "2", "3", "4", "5", "6", "7", "8", "9"}

DigitVal(c) ==
    CASE c = "0" -> 0 [] c = "1" -> 1 [] c = "2" -> 2 [] c = "3" -> 3
      [] c = "4" -> 4 [] c = "5" -> 5 [] c = "6" -> 6 [] c = "7" -> 7
      [] c = "8" -> 8 [] c = "9" -> 9

DigitChar(d) ==
    CASE d = 0 -> "0" [] d = 1 -> "1" [] d = 2 -> "2" [] d = 3 -> "3"
      [] d = 4 -> "4" [] d = 5 -> "5" [] d = 6 -> "6" [] d = 7 -> "7"
      [] d = 8 -> "8" [] d = 9 -> "9"

RECURSIVE DigitsValue(_)
DigitsValue(s) ==
    IF s = <<>> THEN 0
    ELSE 10 * DigitsValue(SubSeq(s, 1, Len(s) - 1)) + DigitVal(s[Len(s)])

\* Characters ECMAScript's StrWhiteSpaceChar covers, among those modelled.
WhiteSpace == {" ", "\n"}

\* Length of the longest prefix of s made of characters of S.
PrefixLen(s, S) ==
    CHOOSE n \in 0..Len(s) :
        /\ \A i \in 1..n : s[i] \in S
        /\ (n = Len(s) \/ s[n + 1] \notin S)

\* Length of the longest suffix of s made of characters of S.
SuffixLen(s, S) ==
    CHOOSE n \in 0..Len(s) :
        /\ \A i \in (Len(s) - n + 1)..Len(s) : s[i] \in S
        /\ (n = Len(s) \/ s[Len(s) - n] \notin S)

DropPrefix(s, n) == SubSeq(s, n + 1, Len(s))

\* The longest prefix of s that is a StrDecimalLiteral, for text without
\* exponent part and without "Infinity" (the modelled alphabets hold no
\* e, E or I): [sign] digits [. [digits]]  or  [sign] . digits.
DecimalPrefix(s) ==
    LET sg == IF s # <<>> /\ s[1] \in {"-", "+"} THEN 1 ELSE 0
        r == DropPrefix(s, sg)
        n1 == PrefixLen(r, Digits)
        dot == Len(r) > n1 /\ r[n1 + 1] = "."
        n2 == IF dot THEN PrefixLen(DropPrefix(r, n1 + 1), Digits) ELSE 0
        neg == sg = 1 /\ s[1] = "-"
        ds == SubSeq(r, 1, n1) \o SubSeq(r, n1 + 2, n1 + 1 + n2)
    IN  IF n1 = 0 /\ n2 = 0
        THEN [ok |-> FALSE, len |-> 0, val |-> NaN]
        ELSE [ok |-> TRUE,
              len |-> sg + n1 + (IF dot THEN 1 + n2 ELSE 0),
              val |-> Num(neg, DigitsValue(ds), n2)]

---------------------------------------------------------------------------
(* The cast functions getFields attaches (GenericFunctions, lines 11-26). *)

\* Variant of Number(v) that takes the empty text for no number.
JsNumberEmptyIsNaN(v) ==
    LET t == DropPrefix(v, PrefixLen(v, WhiteSpace))
        u == SubSeq(t, 1, Len(t) - SuffixLen(t, WhiteSpace))
        p == DecimalPrefix(u)
    IN  IF p.ok /\ p.len = Len(u) THEN p.val ELSE NaN

\* Number(v): surrounding white space is ignored, the empty text is 0, the
\* whole rest must be a numeric literal.
JsNumber(v) ==
    LET t == DropPrefix(v, PrefixLen(v, WhiteSpace))
        u == SubSeq(t, 1, Len(t) - SuffixLen(t, WhiteSpace))
        p == DecimalPrefix(u)
    IN  IF u = <<>> THEN Num(FALSE, 0, 0)
        ELSE IF p.ok /\ p.len = Len(u) THEN p.val ELSE NaN

\* parseInt(v, 10): leading white space is skipped, then an optional sign
\* and the longest run of decimal digits; what follows is ignored.
JsParseInt(v) ==
    LET t == DropPrefix(v, PrefixLen(v, WhiteSpace))
        sg == IF t # <<>> /\ t[1] \in {"-", "+"} THEN 1 ELSE 0
        r == DropPrefix(t, sg)
        n == PrefixLen(r, Digits)
    IN  IF n = 0 THEN NaN
        ELSE Num(sg = 1 /\ t[1] = "-", DigitsValue(SubSeq(r, 1, n)), 0)

\* parseFloat(v): leading white space is skipped, then the longest prefix
\* that is a decimal literal; what follows is ignored.
JsParseFloat(v) == DecimalPrefix(DropPrefix(v, PrefixLen(v, WhiteSpace))).val

\* Boolean(v) of a string: false for the empty string only.
JsBoolean(v) == Bool(v # <<>>)

\* The function a cast tag stands for; "undefined" is no cast (the text stays).
ApplyCast(cast, v) ==
    CASE cast = "Number" -> JsNumber(v)
      [] cast = "parseInt" -> JsParseInt(v)
      [] cast = "parseFloat" -> JsParseFloat(v)
      [] cast = "Boolean" -> JsBoolean(v)
      [] OTHER -> Str(v)

---------------------------------------------------------------------------
(* getFields (GenericFunctions, lines 4-41). *)

\* ((fieldConfig || {}).field || [])
RawFields(fieldConfig) ==
    IF "field" \in DOMAIN fieldConfig THEN fieldConfig.field ELSE <<>>

\* The configurations of 1..MaxFields fields drawn from raw.
FieldConfigsOf(raw) ==
    {[field |-> f] : f \in UNION {[1..k -> raw] : k \in 1..MaxFields}}

\* Variant of the switch with the integer and float branches exchanged.
CastOfSwapped(operation, dataType) ==
    IF operation = "fromFile"
    THEN CASE dataType = "number" -> "Number"
           [] dataType = "integer" -> "parseFloat"
           [] dataType = "float" -> "parseInt"
           [] dataType = "boolean" -> "Boolean"
           [] OTHER -> "undefined"
    ELSE "undefined"

\* Variant of the switch whose default branch casts like 'number'.
CastOfDefaultNumber(operation, dataType) ==
    IF operation = "fromFile"
    THEN CASE dataType = "integer" -> "parseInt"
           [] dataType = "float" -> "parseFloat"
           [] dataType = "boolean" -> "Boolean"
           [] OTHER -> "Number"
    ELSE "undefined"

\* The switch on dataType, reached for operation fromFile only.
CastOf(operation, dataType) ==
    IF operation = "fromFile"
    THEN CASE dataType = "number" -> "Number"
           [] dataType = "integer" -> "parseInt"
           [] dataType = "float" -> "parseFloat"
           [] dataType = "boolean" -> "Boolean"
           [] OTHER -> "undefined"
    ELSE "undefined"

\* align is copied from the configuration for operation toFile only.
AlignOf(operation, alignRaw) ==
    IF operation = "toFile" THEN alignRaw ELSE "undefined"

\* Variant of getFields that raises a negative width to 0.
GetFieldsClamped(operation, fieldConfig) ==
    LET rawFields == RawFields(fieldConfig)
    IN  [i \in 1..Len(rawFields) |->
            [property |-> rawFields[i].property,
             width |-> IF rawFields[i].width < 0 THEN 0 ELSE rawFields[i].width,
             cast |-> CastOf(operation, rawFields[i].dataType),
             align |-> AlignOf(operation, rawFields[i].align)]]

GetFields(operation, fieldConfig) ==
    LET rawFields == RawFields(fieldConfig)
    IN  [i \in 1..Len(rawFields) |->
            [property |-> rawFields[i].property,
             width |-> rawFields[i].width,
             cast |-> CastOf(operation, rawFields[i].dataType),
             align |-> AlignOf(operation, rawFields[i].align)]]

---------------------------------------------------------------------------
(* Characters and bytes. *)

CharCode(c) ==
    CASE c \in Digits -> 48 + DigitVal(c)
      [] c = "\n" -> 10 [] c = " " -> 32 [] c = "-" -> 45 [] c = "." -> 46
      [] c = "N" -> 78 [] c = "a" -> 97 [] c = "b" -> 98 [] c = "c" -> 99
      [] c = "e" -> 101 [] c = "f" -> 102 [] c = "l" -> 108 [] c = "r" -> 114
      [] c = "s" -> 115 [] c = "t" -> 116 [] c = "u" -> 117
      [] c = "é" -> 233

ModelChars ==
    Digits \cup {"\n", " ", "-", ".", "N", "a", "b", "c", "e", "f", "l", "r",
                 "s", "t", "u", "é"}

\* Buffer.from(text) without an encoding argument encodes as UTF-8
\* (code points below 0x800 are all the model holds).
Utf8Char(c) ==
    LET cp == CharCode(c)
    IN  IF cp < 128 THEN <<cp>> ELSE <<192 + (cp \div 64), 128 + (cp % 64)>>

BufferFrom(text) == Flatten([i \in 1..Len(text) |-> Utf8Char(text[i])])

---------------------------------------------------------------------------
(* The codec of @evologi/fixed-width, after sections 4.1-4.3 and 7 of the  *)
(* specification.  Property paths are plain keys here (no dots, no         *)
(* brackets); a line's index is its position, counted from 1.              *)

\* Section 4.1/7: a width is a non-negative integer, a property path is not
\* empty.  getFields checks neither, so the check is made where the schema
\* is consumed.
ValidSchema(fields) ==
    \A i \in 1..Len(fields) : fields[i].width >= 0 /\ fields[i].property # ""

\* Decoding of a buffer, for the single-byte range of utf8, ascii and latin1.
Decode(bytes) ==
    [i \in 1..Len(bytes) |-> CHOOSE c \in ModelChars : CharCode(c) = bytes[i]]

RECURSIVE Split(_, _)
Split(text, eol) ==
    IF \A i \in 1..Len(text) : text[i] # eol
    THEN <<text>>
    ELSE LET k == CHOOSE i \in 1..Len(text) :
                      text[i] = eol /\ \A j \in 1..(i - 1) : text[j] # eol
         IN  <<SubSeq(text, 1, k - 1)>> \o Split(SubSeq(text, k + 1, Len(text)), eol)

\* Section 4.2 step 2: the terminator separates lines; one terminator at the
\* very end closes the last line and opens no empty one.
LinesOf(text, eol) ==
    LET p == Split(text, eol)
    IN  IF p[Len(p)] = <<>> THEN SubSeq(p, 1, Len(p) - 1) ELSE p

\* Section 4.2 step 3, relaxed: pad on the right, or cut the tail.
AdjustLine(line, n, pad) ==
    IF Len(line) >= n THEN SubSeq(line, 1, n)
    ELSE line \o PadRun(pad, n - Len(line))

\* Section 4.2 step 3: trimming strips runs of the pad character.
TrimText(s, trim, pad) ==
    LET l == IF trim \in {"true", "left"} THEN PrefixLen(s, {pad}) ELSE 0
        t == DropPrefix(s, l)
        r == IF trim \in {"true", "right"} THEN SuffixLen(t, {pad}) ELSE 0
    IN  SubSeq(t, 1, Len(t) - r)

Offset(fields, i) == SumWidths(SubSeq(fields, 1, i - 1))

SetPath(rec, property, value) ==
    [k \in DOMAIN rec \cup {property} |-> IF k = property THEN value ELSE rec[k]]

GetPath(rec, property) ==
    IF property \in DOMAIN rec THEN rec[property] ELSE Undefined

RECURSIVE ParseFields(_, _, _, _, _)
ParseFields(line, fields, n, trim, pad) ==
    IF n = 0 THEN EmptyObject
    ELSE LET f == fields[n]
             o == Offset(fields, n)
             slice == SubSeq(line, o + 1, o + f.width)
         IN  SetPath(ParseFields(line, fields, n - 1, trim, pad),
                     f.property,
                     ApplyCast(f.cast, TrimText(slice, trim, pad)))

\* parse(buffer, options), section 4.2.
Parse(bytes, options) ==
    LET fields == options.fields
        pad == Opt(options, "pad", " ")
        trim == Opt(options, "trim", "true")
        relax == Opt(options, "relax", FALSE)
        lines == LinesOf(Decode(bytes), Opt(options, "eol", "\n"))
        expected == SumWidths(fields)
        bad == {i \in 1..Len(lines) : Len(lines[i]) # expected}
    IN  IF ~ValidSchema(fields)
        THEN [ok |-> FALSE, error |-> [kind |-> "SchemaError"]]
        ELSE IF ~relax /\ bad # {}
        THEN [ok |-> FALSE,
              error |-> [kind |-> "LengthMismatchError",
                         line |-> CHOOSE i \in bad : \A j \in bad : i <= j]]
        ELSE [ok |-> TRUE,
              records |-> [i \in 1..Len(lines) |->
                  ParseFields(AdjustLine(lines[i], expected, pad),
                              fields, Len(fields), trim, pad)]]

RECURSIVE DigitsOf(_)
DigitsOf(n) ==
    IF n < 10 THEN <<DigitChar(n)>>
    ELSE DigitsOf(n \div 10) \o <<DigitChar(n % 10)>>

\* Section 4.3 step 1: the text of a value (decimal for numbers).
ToText(v) ==
    CASE v.t = "str" -> v.s
      [] v.t = "bool" -> IF v.b THEN <<"t", "r", "u", "e">>
                         ELSE <<"f", "a", "l", "s", "e">>
      [] v.t = "nan" -> <<"N", "a", "N">>
      [] v.t = "num" ->
            LET d == DigitsOf(v.mant)
                all == Repeat("0", v.scale + 1 - Len(d)) \o d
                int == SubSeq(all, 1, Len(all) - v.scale)
                frac == SubSeq(all, Len(all) - v.scale + 1, Len(all))
            IN  (IF v.neg /\ v.mant # 0 THEN <<"-">> ELSE <<>>)
                    \o int \o (IF v.scale > 0 THEN <<".">> \o frac ELSE <<>>)
      [] OTHER -> <<>>

\* Section 4.3 steps 2 and 3: cut to the width, or pad on the side opposite
\* to the alignment (left unless the field says right).
FormatField(text, f, pad) ==
    IF Len(text) >= f.width THEN SubSeq(text, 1, f.width)
    ELSE IF f.align = "right" THEN PadRun(pad, f.width - Len(text)) \o text
    ELSE text \o PadRun(pad, f.width - Len(text))

StringifyLine(rec, fields, pad) ==
    Flatten([i \in 1..Len(fields) |->
                FormatField(ToText(GetPath(rec, fields[i].property)), fields[i], pad)])

RECURSIVE Join(_, _)
Join(lines, eol) ==
    IF lines = <<>> THEN <<>>
    ELSE IF Len(lines) = 1 THEN lines[1]
    ELSE lines[1] \o <<eol>> \o Join(Tail(lines), eol)

\* stringify(records, options), section 4.3; the node uses its result as text.
Stringify(records, options) ==
    LET fields == options.fields
        eol == Opt(options, "eol", "\n")
        lines == [i \in 1..Len(records) |->
                     StringifyLine(records[i], fields, options.pad)]
    IN  IF ~ValidSchema(fields)
        THEN [ok |-> FALSE, error |-> [kind |-> "SchemaError"]]
        ELSE [ok |-> TRUE,
              lines |-> lines,
              text |-> Join(lines, eol)
                          \o (IF Opt(options, "eof", FALSE) THEN <<eol>> ELSE <<>>)]

---------------------------------------------------------------------------
(* execute() (FixedWidthFile.node.ts, lines 333-444). *)

\* Lines 338-347: the trim handed to the codec ("true" and "false" stand for
\* the booleans).
NodeTrim(options) ==
    IF Has(options, "trim") /\ options.trim = "both" THEN "true"
    ELSE IF Has(options, "trim") /\ options.trim = "none" THEN "false"
    ELSE IF Has(options, "trim") /\ options.trim \in {"left", "right"}
    THEN options.trim
    ELSE "true"

\* Variant of line 339 without the default: options.pad || ''.
NodePadNoDefault(options) == Opt(options, "pad", "")

\* Line 339: options.pad ? options.pad : ' '.
NodePad(options) ==
    IF Has(options, "pad") /\ options.pad # "" THEN options.pad ELSE " "

\* Line 404: options.encoding || 'utf8'.
NodeEncoding(options) ==
    IF Has(options, "encoding") /\ options.encoding # "" THEN options.encoding
    ELSE "utf8"

\* Variant of lines 366-370 without the spread of options.
ParserOptionsNoSpread(options, fields) ==
    [trim |-> NodeTrim(options), fields |-> fields]

\* Lines 366-370.
ParserOptions(options, fields) ==
    Merge(options, [trim |-> NodeTrim(options), fields |-> fields])

\* Lines 406-412.
StringifyOptions(options, fields) ==
    Merge(options, [encoding |-> NodeEncoding(options),
                    pad |-> NodePad(options),
                    trim |-> NodeTrim(options),
                    fields |-> fields])

\* Line 416: prepareBinaryData(Buffer.from(text), fileName).
PrepareBinaryData(text, options) ==
    [data |-> BufferFrom(text), fileName |-> Opt(options, "fileName", "")]

Jsons(its) == [i \in 1..Len(its) |-> its[i].json]

\* Lines 358: the item carries the configured binary property.
HasBinary(item, name) == Has(item, "binary") /\ Has(item.binary, name)

---------------------------------------------------------------------------
(* Values shared by every specification. *)

NoError == [kind |-> "none"]
NoParams == [operation |-> "none"]

Idle == /\ items = <<>>
        /\ itemIndex = 0
        /\ reads = <<>>
        /\ thrown = NoError

---------------------------------------------------------------------------
(* SpecCast: the four casts applied to one text. *)

CastChars == {" ", "1", "2", "a", "-", "."}

InitCast ==
    /\ params = NoParams
    /\ pc = "cast"
    /\ Idle
    /\ input \in TextsUpTo(CastChars, MaxText)
    /\ result = Undefined

CastAll ==
    /\ pc = "cast"
    /\ pc' = "castDone"
    /\ result' = [number |-> ApplyCast(CastOf("fromFile", "number"), input),
                  integer |-> ApplyCast(CastOf("fromFile", "integer"), input),
                  float |-> ApplyCast(CastOf("fromFile", "float"), input),
                  boolean |-> ApplyCast(CastOf("fromFile", "boolean"), input),
                  string |-> ApplyCast(CastOf("fromFile", "string"), input)]
    /\ UNCHANGED <<params, items, itemIndex, reads, thrown, input>>

NextCast == CastAll

SpecCast == InitCast /\ [][NextCast]_vars

---------------------------------------------------------------------------
(* SpecSchema: getFields applied to one field configuration. *)

DataTypes == {"string", "number", "integer", "float", "boolean", "undefined"}
Aligns == {"left", "right", "undefined"}

\* Two families of configurations: every data type and alignment, and
\* every combination of a valid or invalid width and property.
FieldConfigs ==
    {EmptyObject}
        \cup FieldConfigsOf([property : {"a"}, width : {2},
                             dataType : DataTypes, align : Aligns])
        \cup FieldConfigsOf([property : {"a", ""}, width : {-1, 0, 2},
                             dataType : {"string"}, align : {"left"}])

InitSchema ==
    /\ params \in [operation : {"fromFile", "toFile"}, fields : FieldConfigs]
    /\ pc = "schema"
    /\ Idle
    /\ input = Undefined
    /\ result = Undefined

\* getFields holds no throw statement: it returns for every configuration.
BuildSchema ==
    /\ pc = "schema"
    /\ pc' = "schemaDone"
    /\ result' = [threw |-> FALSE, fields |-> GetFields(params.operation, params.fields)]
    /\ UNCHANGED <<params, items, itemIndex, reads, thrown, input>>

NextSchema == BuildSchema

SpecSchema == InitSchema /\ [][NextSchema]_vars

---------------------------------------------------------------------------
(* execute(), common entry (lines 334-349). *)

Start ==
    /\ pc = "start"
    /\ pc' = params.operation
    /\ items' = params.inputData
    /\ UNCHANGED <<params, itemIndex, reads, thrown, input, result>>

---------------------------------------------------------------------------
(* execute(), operation toFile (lines 400-443). *)

ToFileStringify ==
    Stringify(Jsons(items),
              StringifyOptions(params.options, GetFields("toFile", params.fields)))

\* Lines 415-424 and 443: one item replaces the list.
ToFileOk ==
    /\ pc = "toFile"
    /\ ToFileStringify.ok
    /\ items' = <<[json |-> EmptyObject,
                   binary |-> (params.binaryPropertyName :>
                       PrepareBinaryData(ToFileStringify.text, params.options))]>>
    /\ result' = items'
    /\ pc' = "done"
    /\ UNCHANGED <<params, itemIndex, reads, thrown, input>>

\* Variant of lines 425-432 that assigns the list, as the success branch
\* does, where the code pushes.
ToFileFailContinueReplacing ==
    /\ pc = "toFile"
    /\ ~ToFileStringify.ok
    /\ params.continueOnFail
    /\ items' = <<[json |-> EmptyObject, error |-> ToFileStringify.error]>>
    /\ result' = items'
    /\ pc' = "done"
    /\ UNCHANGED <<params, itemIndex, reads, thrown, input>>

\* Lines 425-432 and 443: an error item is pushed after the input items.
ToFileFailContinue ==
    /\ pc = "toFile"
    /\ ~ToFileStringify.ok
    /\ params.continueOnFail
    /\ items' = Append(items, [json |-> EmptyObject, error |-> ToFileStringify.error])
    /\ result' = items'
    /\ pc' = "done"
    /\ UNCHANGED <<params, itemIndex, reads, thrown, input>>

\* Lines 433-439: the error is thrown (wrapped, as the codec's errors carry
\* no context).
ToFileFailThrow ==
    /\ pc = "toFile"
    /\ ~ToFileStringify.ok
    /\ ~params.continueOnFail
    /\ thrown' = [kind |-> "NodeOperationError", cause |-> ToFileStringify.error]
    /\ pc' = "threw"
    /\ UNCHANGED <<params, items, itemIndex, reads, input, result>>

Encodings == {"ascii", "utf8", "utf16le", "base64", "hex", "latin1"}

MaxToItems == 2

ToValues ==
    {Str(<<"a">>), Str(<<"a", "b", "c">>), Str(<<"1">>), Num(FALSE, 12, 0)}

ToItems == {[json |-> EmptyObject]} \cup {[json |-> [a |-> v]] : v \in ToValues}

ToInputs == UNION {[1..k -> ToItems] : k \in 0..MaxToItems}

ToRawField(w, al) ==
    [property |-> "a", width |-> w, dataType |-> "string", align |-> al]

\* Three families of toFile runs: layouts (valid schemas, pad and eof
\* options), failures (schemas with a negative width, continueOnFail on and
\* off) and encodings (one schema, every encoding option).
InitToFile ==
    /\ \/ params \in
            [operation : {"toFile"},
             options : {EmptyObject, [pad |-> ""], [pad |-> "0"], [eof |-> TRUE],
                        [pad |-> "0", eof |-> TRUE]},
             fields : FieldConfigsOf({ToRawField(1, "undefined"),
                                      ToRawField(2, "undefined"),
                                      ToRawField(2, "right")}),
             continueOnFail : {FALSE},
             binaryPropertyName : {"data"},
             inputData : ToInputs]
       \/ params \in
            [operation : {"toFile"},
             options : {EmptyObject},
             fields : FieldConfigsOf({ToRawField(w, "left") : w \in {-1, 1}}),
             continueOnFail : BOOLEAN,
             binaryPropertyName : {"data", "file"},
             inputData : ToInputs]
       \/ params \in
            [operation : {"toFile"},
             options : {Merge(c, e) :
                            c \in {[encoding |-> x] : x \in Encodings \cup {""}}
                                      \cup {EmptyObject},
                            e \in {EmptyObject, [eof |-> TRUE]}},
             fields : {[field |-> <<ToRawField(2, "left")>>]},
             continueOnFail : {FALSE},
             binaryPropertyName : {"data"},
             inputData : ToInputs]
    /\ pc = "start"
    /\ Idle
    /\ input = Undefined
    /\ result = Undefined

NextToFile ==
    \/ Start
    \/ ToFileOk
    \/ ToFileFailContinue
    \/ ToFileFailThrow

SpecToFile == InitToFile /\ [][NextToFile]_vars

---------------------------------------------------------------------------
(* execute(), operation fromFile (lines 351-399 and 443). *)

MaxItems == 3
MaxLines == 2

\* No run of the loop reaches this index: a failure appends at most one
\* item per input item.  The guard keeps a run that would never end finite.
LoopCap == 2 * MaxItems + 2

InLoop == pc = "fromFile" /\ itemIndex < Len(items) /\ itemIndex < LoopCap

CurrentItem == items[itemIndex + 1]

\* Lines 363-372: the schema is built, the buffer fetched by item index,
\* and parse called with the options spread under trim and fields.
FromFileParse ==
    Parse(params.inputData[itemIndex + 1].binary[params.binaryPropertyName],
          ParserOptions(params.options, GetFields("fromFile", params.fields)))

\* Variant of lines 358-361 without the continue: the missing buffer makes
\* the item fail, and with continueOnFail an error item is pushed.
FromFileSkipFails ==
    /\ InLoop
    /\ ~HasBinary(CurrentItem, params.binaryPropertyName)
    /\ items' = IF params.continueOnFail
                THEN Append(items, [json |-> EmptyObject,
                                    error |-> [kind |-> "TypeError"],
                                    pairedItem |-> itemIndex])
                ELSE items
    /\ itemIndex' = itemIndex + 1
    /\ UNCHANGED <<params, pc, reads, thrown, input, result>>

\* Lines 358-361: continue.
FromFileSkip ==
    /\ InLoop
    /\ ~HasBinary(CurrentItem, params.binaryPropertyName)
    /\ itemIndex' = itemIndex + 1
    /\ UNCHANGED <<params, pc, items, reads, thrown, input, result>>

\* Lines 373-376: the parsed records replace the list the loop runs over.
FromFileParsed ==
    /\ InLoop
    /\ HasBinary(CurrentItem, params.binaryPropertyName)
    /\ FromFileParse.ok
    /\ reads' = Append(reads, itemIndex)
    /\ items' = [k \in 1..Len(FromFileParse.records) |->
                    [json |-> FromFileParse.records[k], pairedItem |-> itemIndex]]
    /\ itemIndex' = itemIndex + 1
    /\ UNCHANGED <<params, pc, thrown, input, result>>

\* Lines 380-385: getInputData(itemIndex) names an input of the node by its
\* index.  Input 0 is the list of input items; the node has no other input,
\* so for itemIndex > 0 the host decides: the handler fails (next action) or
\* it finds some item's json.
FromFileFailContinue ==
    /\ InLoop
    /\ HasBinary(CurrentItem, params.binaryPropertyName)
    /\ ~FromFileParse.ok
    /\ params.continueOnFail
    /\ \E k \in 1..Len(params.inputData) :
          /\ itemIndex = 0 => k = 1
          /\ items' = Append(items, [json |-> params.inputData[k].json,
                                     error |-> FromFileParse.error,
                                     pairedItem |-> itemIndex])
    /\ reads' = Append(reads, itemIndex)
    /\ itemIndex' = itemIndex + 1
    /\ UNCHANGED <<params, pc, thrown, input, result>>

FromFileHandlerThrows ==
    /\ InLoop
    /\ HasBinary(CurrentItem, params.binaryPropertyName)
    /\ ~FromFileParse.ok
    /\ params.continueOnFail
    /\ itemIndex > 0
    /\ reads' = Append(reads, itemIndex)
    /\ thrown' = [kind |-> "TypeError"]
    /\ pc' = "threw"
    /\ UNCHANGED <<params, items, itemIndex, input, result>>

\* Lines 386-396: the error is thrown with the item index.
FromFileFailThrow ==
    /\ InLoop
    /\ HasBinary(CurrentItem, params.binaryPropertyName)
    /\ ~FromFileParse.ok
    /\ ~params.continueOnFail
    /\ reads' = Append(reads, itemIndex)
    /\ thrown' = [kind |-> "NodeOperationError", cause |-> FromFileParse.error,
                  itemIndex |-> itemIndex]
    /\ pc' = "threw"
    /\ UNCHANGED <<params, items, itemIndex, input, result>>

\* Lines 352 and 443: the loop ends, the list is returned.
FromFileReturn ==
    /\ pc = "fromFile"
    /\ itemIndex >= Len(items)
    /\ result' = items
    /\ pc' = "done"
    /\ UNCHANGED <<params, items, itemIndex, reads, thrown, input>>

\* Lines of input files.
FromLines == {<<>>, <<"1">>, <<"1", "2">>, <<"1", "a">>, <<"1", "2", "a">>}

BufferOfLines(lines, closed) ==
    BufferFrom(Join(lines, "\n") \o (IF closed THEN <<"\n">> ELSE <<>>))

FromBuffers ==
    {BufferOfLines(ls, closed) :
        ls \in UNION {[1..k -> FromLines] : k \in 1..MaxLines}, closed \in BOOLEAN}

FromRawField(p, w, dt) ==
    [property |-> p, width |-> w, dataType |-> dt, align |-> "left"]

FromFieldConfigs ==
    {[field |-> <<FromRawField("a", 2, "string")>>],
     [field |-> <<FromRawField("a", 1, "integer"), FromRawField("b", 1, "string")>>],
     [field |-> <<FromRawField("a", 1, "string"), FromRawField("b", 2, "number")>>],
     [field |-> <<FromRawField("a", -1, "string"), FromRawField("b", 2, "string")>>]}

FromOptions ==
    {EmptyObject, [trim |-> "none"], [relax |-> FALSE, trim |-> "none"],
     [relax |-> TRUE], [relax |-> TRUE, trim |-> "none"],
     [relax |-> TRUE, pad |-> "0"], [relax |-> TRUE, trim |-> "none", pad |-> "0"]}

\* Input items of the runs over several items: without binary data, with
\* binary data under another property, with a file of one or of two
\* well-formed lines, with a file whose second line is too long.
ManyItems ==
    {[json |-> [n |-> Str(<<"1">>)]],
     [json |-> [n |-> Str(<<"2">>)], binary |-> [other |-> BufferOfLines(<<<<"1", "2">>>>, TRUE)]],
     [json |-> [n |-> Str(<<"3">>)], binary |-> [data |-> BufferOfLines(<<<<"1", "2">>>>, TRUE)]],
     [json |-> [n |-> Str(<<"4">>)],
      binary |-> [data |-> BufferOfLines(<<<<"1", "a">>, <<" ", "1">>>>, FALSE)]],
     [json |-> [n |-> Str(<<"5">>)],
      binary |-> [data |-> BufferOfLines(<<<<"1", "2">>, <<"1", "2", "a">>>>, TRUE)]]}

\* Two families of fromFile runs: one input file with every schema and
\* option, and up to MaxItems input items with one schema.
InitOneFile ==
    params \in
        [operation : {"fromFile"},
         options : FromOptions,
         fields : FromFieldConfigs,
         continueOnFail : BOOLEAN,
         binaryPropertyName : {"data"},
         inputData : {<<[json |-> [n |-> Str(<<"1">>)], binary |-> [data |-> b]]>> :
                          b \in FromBuffers}]

InitManyItems ==
    params \in
        [operation : {"fromFile"},
         options : {EmptyObject, [relax |-> TRUE]},
         fields : {[field |-> <<FromRawField("a", 2, "string")>>]},
         continueOnFail : BOOLEAN,
         binaryPropertyName : {"data"},
         inputData : UNION {[1..k -> ManyItems] : k \in 0..MaxItems}]

InitExecute ==
    /\ pc = "start"
    /\ Idle
    /\ input = Undefined
    /\ result = Undefined

InitFromFile == (InitOneFile \/ InitManyItems) /\ InitExecute

Next ==
    \/ Start
    \/ FromFileSkip
    \/ FromFileParsed
    \/ FromFileFailContinue
    \/ FromFileHandlerThrows
    \/ FromFileFailThrow
    \/ FromFileReturn

Spec == InitFromFile /\ [][Next]_vars

---------------------------------------------------------------------------
(* Statements about fromFile. *)

FromFileEnded == params.operation = "fromFile" /\ pc \in {"done", "threw"}

SchemaOf(p) == GetFields(p.operation, p.fields)

\* The lines of a file, as byte sequences.
FileLines(bytes) == LinesOf(bytes, 10)

\* The records one well-read input item gives, as output items.
RecordsOf(i) ==
    LET r == Parse(params.inputData[i].binary[params.binaryPropertyName],
                   ParserOptions(params.options, SchemaOf(params)))
    IN  [k \in 1..Len(r.records) |-> [json |-> r.records[k], pairedItem |-> i - 1]]

ReadableItems ==
    {i \in 1..Len(params.inputData) :
        HasBinary(params.inputData[i], params.binaryPropertyName)}

NothingFails ==
    \A i \in ReadableItems :
        Parse(params.inputData[i].binary[params.binaryPropertyName],
              ParserOptions(params.options, SchemaOf(params))).ok

(* C2: with one input file and a valid schema, strict parsing of a file   *)
(* holding a line whose length is not the sum of the widths fails as a     *)
(* whole with a LengthMismatchError naming the first such line, and no     *)
(* record is returned, whatever the lines before it; relaxed parsing of    *)
(* the same file succeeds with one record per line, a short line being     *)
(* filled on the right with the pad character and a long line cut.         *)
C2_StrictAndRelaxed ==
    (/\ FromFileEnded
     /\ Len(params.inputData) = 1
     /\ ReadableItems = {1}
     /\ \A i \in 1..Len(params.fields.field) :
            params.fields.field[i].width >= 0 /\ params.fields.field[i].property # "") =>
        LET lines == FileLines(params.inputData[1].binary[params.binaryPropertyName])
            cfg == params.fields.field
            widths == [i \in 1..Len(cfg) |-> cfg[i].width]
            total == Sum(widths)
            bad == {k \in 1..Len(lines) : Len(lines[k]) # total}
            relax == Opt(params.options, "relax", FALSE)
            pad == Opt(params.options, "pad", " ")
            mismatch == [kind |-> "LengthMismatchError",
                         line |-> CHOOSE k \in bad : \A j \in bad : k <= j]
        IN  IF ~relax /\ bad # {}
            THEN IF params.continueOnFail
                 THEN /\ pc = "done"
                      /\ Len(result) = 2
                      /\ result[1] = params.inputData[1]
                      /\ result[2].error = mismatch
                 ELSE /\ pc = "threw"
                      /\ thrown.cause = mismatch
                      /\ result = Undefined
            ELSE /\ pc = "done"
                 /\ Len(result) = Len(lines)
                 /\ \A k \in 1..Len(lines) :
                       /\ result[k].pairedItem = 0
                       /\ \A i \in 1..Len(cfg) :
                             (cfg[i].dataType = "string"
                                  /\ Has(params.options, "trim")
                                  /\ params.options.trim = "none") =>
                                 LET o == Sum(SubSeq(widths, 1, i - 1))
                                     v == result[k].json[cfg[i].property]
                                 IN  /\ v.t = "str"
                                     /\ Len(v.s) = widths[i]
                                     /\ \A j \in 1..widths[i] :
                                           IF o + j <= Len(lines[k])
                                           THEN CharCode(v.s[j]) = lines[k][o + j]
                                           ELSE v.s[j] = pad

\* A relaxed run has read a file with a short and a long line.
C2_Witness ==
    /\ FromFileEnded
    /\ pc = "done"
    /\ params.options = [relax |-> TRUE, trim |-> "none", pad |-> "0"]
    /\ FileLines(params.inputData[1].binary.data) = <<<<49>>, <<49, 50, 97>>>>
    /\ Len(result) = 2
    /\ result[1].json = [a |-> Str(<<"1", "0">>)]
    /\ result[2].json = [a |-> Str(<<"1", "2">>)]

(* C8: after a fromFile run without error the output holds, for every      *)
(* input item that carries the binary property, that item's records in     *)
(* line order, each paired with the item's index.                          *)
C8_EveryItemsRecords ==
    (FromFileEnded /\ NothingFails) =>
        /\ pc = "done"
        /\ \A i \in ReadableItems :
              LET OfItem(x) == Has(x, "pairedItem") /\ x.pairedItem = i - 1
              IN  SelectSeq(result, OfItem) = RecordsOf(i)

\* A parsed record, as line 373 builds it.
IsRecord(x) == Has(x, "pairedItem") /\ ~Has(x, "error")

(* C9: the fromFile loop ends, whichever items fail and whether or not     *)
(* failures append error items to the list the loop runs over.  While the  *)
(* loop runs, the list is either the parsed records of one file or the     *)
(* input items followed by one error item per file read so far, files are  *)
(* read in increasing index order and only at indices of input items, and  *)
(* the index stays below the bound LoopCap; every step leaves the loop or  *)
(* moves the index one item on.  An item without the binary property is    *)
(* stepped over: no buffer is read and the list stays as it is.            *)
C9_LoopEnds ==
    /\ [](pc = "fromFile" =>
            /\ itemIndex < Len(items) => itemIndex < LoopCap
            /\ \/ \A k \in 1..Len(items) : IsRecord(items[k])
               \/ Len(items) <= Len(params.inputData) + Len(reads)
            /\ \A k \in 1..Len(reads) :
                  /\ reads[k] < Len(params.inputData)
                  /\ reads[k] < itemIndex
                  /\ k > 1 => reads[k - 1] < reads[k])
    /\ [][/\ pc' # pc \/ itemIndex' = itemIndex + 1
          /\ pc \in {"done", "threw"} => pc' = pc
          /\ (InLoop /\ ~HasBinary(CurrentItem, params.binaryPropertyName))
                => (reads' = reads /\ items' = items /\ pc' = pc)]_vars

\* A run with continueOnFail ended after failures grew the list.
C9_Witness ==
    /\ pc = "done"
    /\ params.operation = "fromFile"
    /\ params.continueOnFail
    /\ Len(params.inputData) = 3
    /\ Len(result) = 5
    /\ itemIndex = 5

---------------------------------------------------------------------------
(* Reading a produced file back, for the statements about toFile. *)

\* The text a UTF-8 buffer holds (one- and two-byte sequences).
RECURSIVE Utf8Text(_)
Utf8Text(bytes) ==
    IF bytes = <<>> THEN <<>>
    ELSE IF bytes[1] < 128
    THEN <<CHOOSE c \in ModelChars : CharCode(c) = bytes[1]>> \o Utf8Text(Tail(bytes))
    ELSE <<CHOOSE c \in ModelChars :
               CharCode(c) = (bytes[1] - 192) * 64 + (bytes[2] - 128)>>
             \o Utf8Text(Tail(Tail(bytes)))

ToFileSucceeded ==
    pc = "done" /\ params.operation = "toFile" /\ Len(result) = 1
        /\ Has(result[1], "binary")

WrittenText == Utf8Text(result[1].binary[params.binaryPropertyName].data)

ConfigWidths == [i \in 1..Len(params.fields.field) |-> params.fields.field[i].width]

TotalWidth == Sum(ConfigWidths)

\* The k-th line of text when every line has w characters and a
\* one-character terminator follows each line but the last.
LineAt(text, w, k) == SubSeq(text, (k - 1) * (w + 1) + 1, (k - 1) * (w + 1) + w)

FieldAt(line, widths, i) ==
    SubSeq(line, Sum(SubSeq(widths, 1, i - 1)) + 1, Sum(SubSeq(widths, 1, i)))

PadChar == IF Has(params.options, "pad") /\ params.options.pad # ""
           THEN params.options.pad ELSE " "

(* C1: every line toFile writes has exactly as many characters as the      *)
(* widths of the schema add up to; a string longer than its field is cut   *)
(* to the field's first width characters, a shorter one fills the field    *)
(* together with pad characters only.                                      *)
C1_LineLength ==
    ToFileSucceeded =>
        LET n == Len(params.inputData)
            eof == Opt(params.options, "eof", FALSE)
            text == WrittenText
            widths == ConfigWidths
            total == Sum(widths)
        IN  /\ Len(text) =
                   n * total + (IF n > 0 THEN n - 1 ELSE 0) + (IF eof THEN 1 ELSE 0)
            /\ \A k \in 1..n :
                  LET line == LineAt(text, total, k)
                  IN  /\ Len(line) = total
                      /\ \A j \in 1..total : line[j] # "\n"
                      /\ k < n => text[k * (total + 1)] = "\n"
                      /\ \A i \in 1..Len(widths) :
                            LET v == GetPath(params.inputData[k].json,
                                             params.fields.field[i].property)
                                w == widths[i]
                                got == FieldAt(line, widths, i)
                            IN  v.t = "str" =>
                                  IF Len(v.s) >= w THEN got = SubSeq(v.s, 1, w)
                                  ELSE \/ got = v.s \o Repeat(PadChar, w - Len(v.s))
                                       \/ got = Repeat(PadChar, w - Len(v.s)) \o v.s

\* A file was written in which one value was cut and another padded.
C1_Witness ==
    /\ ToFileSucceeded
    /\ Len(params.inputData) = 2
    /\ params.inputData[1].json = [a |-> Str(<<"a", "b", "c">>)]
    /\ params.inputData[2].json = [a |-> Str(<<"a">>)]
    /\ ConfigWidths = <<2, 1>>
    /\ WrittenText = <<"a", "b", "a", "\n", "a", " ", "a">>

(* C10: a toFile run whose stringify succeeds returns exactly one item,    *)
(* with an empty json and the single binary property binaryPropertyName    *)
(* holding the stringification of the input items' json in input order,    *)
(* also for no input item; when stringify fails the run throws and returns *)
(* nothing if continueOnFail is off, and returns the unchanged input items *)
(* followed by exactly one error item if it is on.                         *)
C10_ToFileOutcome ==
    (params.operation = "toFile" /\ pc \in {"done", "threw"}) =>
        LET n == Len(params.inputData)
            name == params.binaryPropertyName
            r == Stringify(Jsons(params.inputData),
                           StringifyOptions(params.options,
                                            GetFields("toFile", params.fields)))
        IN  IF r.ok
            THEN /\ pc = "done" /\ thrown = NoError
                 /\ Len(result) = 1
                 /\ DOMAIN result[1] = {"json", "binary"}
                 /\ result[1].json = EmptyObject
                 /\ DOMAIN result[1].binary = {name}
                 /\ Utf8Text(result[1].binary[name].data) = r.text
            ELSE IF params.continueOnFail
            THEN /\ pc = "done" /\ thrown = NoError
                 /\ Len(result) = n + 1
                 /\ SubSeq(result, 1, n) = params.inputData
                 /\ Has(result[n + 1], "error")
                 /\ result[n + 1].json = EmptyObject
                 /\ ~Has(result[n + 1], "binary")
            ELSE /\ pc = "threw" /\ thrown # NoError
                 /\ result = Undefined

\* A failing stringify over two input items ended with three output items.
C10_Witness ==
    /\ params.operation = "toFile"
    /\ pc = "done"
    /\ params.continueOnFail
    /\ Len(params.inputData) = 2
    /\ Len(result) = 3
    /\ Has(result[3], "error")

(* The encodings of a text, for the statement about options.encoding. *)

HexChars == Digits \cup {"a", "b", "c", "e", "f"}

HexVal(c) ==
    CASE c \in Digits -> DigitVal(c)
      [] c = "a" -> 10 [] c = "b" -> 11 [] c = "c" -> 12
      [] c = "e" -> 14 [] c = "f" -> 15

\* Buffer.from(text, 'hex'): pairs of hexadecimal digits, up to the first
\* pair that is none.
RECURSIVE HexBytes(_)
HexBytes(text) ==
    IF Len(text) >= 2 /\ text[1] \in HexChars /\ text[2] \in HexChars
    THEN <<16 * HexVal(text[1]) + HexVal(text[2])>> \o HexBytes(Tail(Tail(text)))
    ELSE <<>>

Base64Chars == Digits \cup {"N", "a", "b", "c", "e", "f", "l", "r", "s", "t", "u", "-"}

Base64Val(c) ==
    CASE c \in Digits -> 52 + DigitVal(c)
      [] c = "N" -> 13 [] c = "a" -> 26 [] c = "b" -> 27 [] c = "c" -> 28
      [] c = "e" -> 30 [] c = "f" -> 31 [] c = "l" -> 37 [] c = "r" -> 43
      [] c = "s" -> 44 [] c = "t" -> 45 [] c = "u" -> 46 [] c = "-" -> 62

RECURSIVE Sextets(_)
Sextets(text) ==
    IF text = <<>> THEN <<>>
    ELSE (IF text[1] \in Base64Chars THEN <<Base64Val(text[1])>> ELSE <<>>)
             \o Sextets(Tail(text))

\* Buffer.from(text, 'base64'): four sextets give three bytes, a rest of
\* three gives two, a rest of two gives one.
RECURSIVE SextetBytes(_)
SextetBytes(q) ==
    IF Len(q) < 2 THEN <<>>
    ELSE <<q[1] * 4 + (q[2] \div 16)>>
        \o (IF Len(q) < 3 THEN <<>>
            ELSE <<(q[2] % 16) * 16 + (q[3] \div 4)>>
                \o (IF Len(q) < 4 THEN <<>>
                    ELSE <<(q[3] % 4) * 64 + q[4]>>
                             \o SextetBytes(SubSeq(q, 5, Len(q)))))

EncodeAs(text, encoding) ==
    CASE encoding = "utf8" ->
            Flatten([i \in 1..Len(text) |->
                IF CharCode(text[i]) < 128 THEN <<CharCode(text[i])>>
                ELSE <<192 + (CharCode(text[i]) \div 64),
                       128 + (CharCode(text[i]) % 64)>>])
      [] encoding \in {"ascii", "latin1"} ->
            [i \in 1..Len(text) |-> CharCode(text[i]) % 256]
      [] encoding = "utf16le" ->
            Flatten([i \in 1..Len(text) |->
                <<CharCode(text[i]) % 256, CharCode(text[i]) \div 256>>])
      [] encoding = "hex" -> HexBytes(text)
      [] encoding = "base64" -> SextetBytes(Sextets(text))

(* C5: the bytes toFile writes are the joined text encoded in the encoding *)
(* the options select, for ascii, utf8, utf16le, base64, hex and latin1.   *)
C5_EncodedAsSelected ==
    ToFileSucceeded =>
        LET r == Stringify(Jsons(params.inputData),
                           StringifyOptions(params.options,
                                            GetFields("toFile", params.fields)))
        IN  result[1].binary[params.binaryPropertyName].data =
                EncodeAs(r.text, NodeEncoding(params.options))

---------------------------------------------------------------------------
(* SpecRound: a file is read with fromFile's options and schema, and the   *)
(* records are written back with toFile's, trim 'none' and pad ' '.        *)

MaxRoundLines == 1

RoundChars == {"0", "1", "a"}

RoundTypes == {"string", "number", "integer", "float", "boolean"}

RoundConfigs ==
    LET first == [property : {"a", "b"}, width : {1, 2},
                  dataType : RoundTypes, align : {"left"}]
        second == [property : {"a", "b"}, width : {1},
                   dataType : RoundTypes, align : {"left"}]
    IN  {[field |-> <<f>>] : f \in first}
            \cup {[field |-> <<f, g>>] : f \in first, g \in second}

RoundOptions == [trim |-> "none", pad |-> " "]

InitRound ==
    /\ params = NoParams
    /\ pc = "round"
    /\ Idle
    /\ \E c \in RoundConfigs :
          LET w == Sum([i \in 1..Len(c.field) |-> c.field[i].width])
          IN  input \in [fields : {c},
                         lines : UNION {[1..k -> [1..w -> RoundChars]] :
                                            k \in 1..MaxRoundLines}]
    /\ result = Undefined

RoundTrip ==
    /\ pc = "round"
    /\ pc' = "roundDone"
    /\ LET bytes == BufferFrom(Join(input.lines, "\n"))
           parsed == Parse(bytes, ParserOptions(RoundOptions,
                                                GetFields("fromFile", input.fields)))
           written == Stringify(parsed.records,
                                StringifyOptions(RoundOptions,
                                                 GetFields("toFile", input.fields)))
       IN  result' = [in |-> bytes,
                      out |-> PrepareBinaryData(written.text, RoundOptions).data]
    /\ UNCHANGED <<params, items, itemIndex, reads, thrown, input>>

NextRound == RoundTrip

SpecRound == InitRound /\ [][NextRound]_vars

---------------------------------------------------------------------------
(* Statements about getFields. *)

SchemaBuilt == pc = "schemaDone"

RawOf(p) == RawFields(p.fields)

CastTable(dataType) ==
    CASE dataType = "number" -> "Number"
      [] dataType = "integer" -> "parseInt"
      [] dataType = "float" -> "parseFloat"
      [] dataType = "boolean" -> "Boolean"
      [] OTHER -> "undefined"

---------------------------------------------------------------------------
(* Numerals and white space, for the statements about the casts. *)

\* Numerals, stated by their shape and not by the scanning the casts do.
IsDigits(s) == s # <<>> /\ \A i \in 1..Len(s) : s[i] \in Digits

Unsigned(s) == IF s # <<>> /\ s[1] \in {"-", "+"} THEN Tail(s) ELSE s

IsIntegerNumeral(s) == IsDigits(Unsigned(s))

IsDecimalNumeral(s) ==
    LET u == Unsigned(s)
    IN  \/ IsDigits(u)
        \/ \E k \in 1..Len(u) :
              /\ u[k] = "."
              /\ LET a == SubSeq(u, 1, k - 1)
                     b == SubSeq(u, k + 1, Len(u))
                 IN  /\ a = <<>> \/ IsDigits(a)
                     /\ b = <<>> \/ IsDigits(b)
                     /\ a # <<>> \/ b # <<>>

Blank(s) == \A i \in 1..Len(s) : s[i] \in WhiteSpace

\* s is w \o m \o rest with w white space and m satisfying P.
StartsWith(s, P(_)) ==
    \E i \in 0..Len(s) : \E j \in i..Len(s) :
        /\ \A k \in 1..i : s[k] \in WhiteSpace
        /\ P(SubSeq(s, i + 1, j))

\* s is w \o m \o w' with w, w' white space and m satisfying P.
Surrounded(s, P(_)) ==
    \E i \in 0..Len(s) : \E j \in i..Len(s) :
        /\ \A k \in 1..i : s[k] \in WhiteSpace
        /\ \A k \in (j + 1)..Len(s) : s[k] \in WhiteSpace
        /\ P(SubSeq(s, i + 1, j))

=============================================================================
